---------------------------- MODULE Spec2Model ----------------------------
(***************************************************************************)
(* A model of the NewNa segmentation viewer: the SegmentationViewer        *)
(* component (src/unnamed/part_000) and the parts of App                   *)
(* (src/unnamed/part_002) that own the box store, the page history and the *)
(* deferred removals.                                                      *)
(*                                                                         *)
(* One action stands for one event handler or timer callback together with *)
(* the effects React runs after it (the filter effect of the viewer and    *)
(* the history effect of App), since every handler runs to completion and  *)
(* the effects are flushed before the next event is handled.               *)
(*                                                                         *)
(* Numbers.  JavaScript numbers are modelled in fixed point with two units *)
(* per pixel (Real(n) is the integer n): the image sizes and pointer       *)
(* positions of the model are chosen so that every division the code makes *)
(* is exact on that grid.                                                  *)
(***************************************************************************)
EXTENDS Integers, Sequences, FiniteSets, TLC

\* ------------------------------------------------------------- bounds ----
\* Pointer positions, in displayed pixels relative to the image origin.
MaxPX == 2
MaxPY == 1
\* Categories 0..MaxCat of the seven are exercised by the filter, by the
\* category menu and by the loaded pages.
MaxCat == 1
\* Pointer positions (k, k) on the diagonal, for the specifications that are
\* not about geometry.
MaxDiag == 1
\* Readings of Date.now(): the clock starts at 1 and a handler that reads it
\* runs only below MaxClock.
MaxClock == 3
\* Pending timers.
MaxTimers == 2
\* Significant bits of the floating-point numbers of the model, and the
\* largest x of a box of a loaded page where the rounding is modelled.
Precision == 8
MaxBoxX == 7

\* ----------------------------------------------------------- variables ----
VARIABLES
  \* App (src/unnamed/part_002)
  allBoxes, imageHistory, currentImageId, uploadedImage, metadata,
  filterCategory, showClearConfirmation,
  \* SegmentationViewer (src/unnamed/part_000)
  isDrawing, currentBox, activeBoxId, isResizing, resizingCorner,
  selectedBoxId, editingBoxId, isCategoryMenuOpen, filteredBoxes,
  scaleX, scaleY, imageLoaded,
  \* the image element (imgRef.current): the dimensions it reports, whether
  \* the image of the displayed page has arrived (complete), whether its load
  \* event is queued, and which passive effects of the viewer are scheduled
  \* and have not run ("mount": those of the first render, "reset": the
  \* imageId effect after a page change, "none")
  img, imgComplete, loadPending, effectPending,
  \* the environment: pending setTimeout callbacks and the clock.  A timer
  \* holds what its callback closes over (imageData); its fields boxId and
  \* page record the box and the page it was set for and are read by the
  \* properties only
  timers, now,
  \* history of the run, read by the properties only: the handler that ran
  \* last, and the first and the last pointer position of the drag under way
  \* (with the filter at its pointer-down)
  lastOp, dragStart, lastPtr

appVars == <<allBoxes, imageHistory, currentImageId, uploadedImage, metadata,
             filterCategory, showClearConfirmation>>
drawVars == <<isDrawing, currentBox>>
resizeVars == <<activeBoxId, isResizing, resizingCorner>>
selVars == <<selectedBoxId, editingBoxId, isCategoryMenuOpen>>
loadVars == <<imageLoaded, img, imgComplete, loadPending, effectPending>>
scaleVars == <<scaleX, scaleY, loadVars>>
viewerVars == <<drawVars, resizeVars, selVars, filteredBoxes, scaleVars>>
envVars == <<timers, now>>
ghostVars == <<dragStart, lastPtr>>
vars == <<appVars, viewerVars, envVars, lastOp, ghostVars>>

\* ------------------------------------------------------------- values ----
\* The fixed-point image of the integer n.
Real(n) == n + n

\* null, for a box id, a box, a category, the metadata, a page id.
NoId == <<"null", 0, 0>>
NoBox == [null |-> TRUE]
NullCat == -1
NoMeta == [null |-> TRUE]
NoImage == 0
NoPoint == [null |-> TRUE]
\* parseInt of a string that holds no number.
NaN == -2

Abs(a) == IF a < 0 THEN -a ELSE a
Max(a, b) == IF a >= b THEN a ELSE b
Min(a, b) == IF a <= b THEN a ELSE b

\* The rounding of JavaScript's numbers, for the laws that depend on it: a
\* binary floating-point value is 0 or m * 2^e with Precision significant
\* bits in m, and every operation rounds its exact result to the nearest
\* such value, ties to the even m (IEEE 754, with Precision in place of 53).
RECURSIVE Pow2(_)
Pow2(k) == IF k = 0 THEN 1 ELSE 2 * Pow2(k - 1)
FloatZero == [m |-> 0, e |-> 0]
Exponents == -(Precision + 1) .. (Precision + 1)
\* The float nearest to num / den (num >= 0, den > 0).
Round(num, den) ==
  IF num = 0 THEN FloatZero
  ELSE LET N(e) == num * Pow2(IF e < 0 THEN -e ELSE 0)
           D(e) == den * Pow2(IF e > 0 THEN e ELSE 0)
           e0 == CHOOSE e \in Exponents :
                   /\ Pow2(Precision - 1) * D(e) <= N(e)
                   /\ N(e) < Pow2(Precision) * D(e)
           m0 == N(e0) \div D(e0)
           r == N(e0) % D(e0)
           m == IF 2 * r > D(e0) \/ (2 * r = D(e0) /\ m0 % 2 = 1)
                THEN m0 + 1 ELSE m0
       IN IF m = Pow2(Precision) THEN [m |-> Pow2(Precision - 1), e |-> e0 + 1]
          ELSE [m |-> m, e |-> e0]
\* a * b and a / b of two floats (b # 0).
FMul(a, b) ==
  IF a.m = 0 \/ b.m = 0 THEN FloatZero
  ELSE LET r == Round(a.m * b.m, 1) IN [m |-> r.m, e |-> r.e + a.e + b.e]
FDiv(a, b) ==
  IF a.m = 0 THEN FloatZero
  ELSE LET r == Round(a.m, b.m) IN [m |-> r.m, e |-> r.e + a.e - b.e]
\* The float of an integer, and of a fixed-point number.
Float(n) == Round(n, 1)
FloatOfReal(v) == Round(v, Real(1))

\* The categories array of the viewer.
categories == 0 .. 6
Cats == 0 .. MaxCat

\* cat.id.toString() of the legend, and parseInt(filterCategory, 10).
ToStr(c) ==
  CASE c = 0 -> "0" [] c = 1 -> "1" [] c = 2 -> "2" [] c = 3 -> "3"
    [] c = 4 -> "4" [] c = 5 -> "5" [] c = 6 -> "6"
ParseInt(s) ==
  CASE s = "0" -> 0 [] s = "1" -> 1 [] s = "2" -> 2 [] s = "3" -> 3
    [] s = "4" -> 4 [] s = "5" -> 5 [] s = "6" -> 6 [] OTHER -> NaN
Filters == {"all"} \cup {ToStr(c) : c \in Cats}

\* The image element's bounding rectangle (its origin in the viewport).
ImgBounds == [left |-> 1, top |-> 1]
\* Pointer events over the image: a grid, and its diagonal.
Pointers ==
  { [clientX |-> ImgBounds.left + px, clientY |-> ImgBounds.top + py] :
      px \in 0 .. MaxPX, py \in 0 .. MaxPY }
DiagPointers ==
  { [clientX |-> ImgBounds.left + k, clientY |-> ImgBounds.top + k] :
      k \in 0 .. MaxDiag }

\* ------------------------------------------------- derived state (effects)
\* The filter effect of the viewer, and the filter of the render pass.
MatchesFilter(box, filter) ==
  IF filter = "all" THEN TRUE ELSE box.category_id = ParseInt(filter)
\* A filter that lets the uncategorized boxes through.
FilterBoxesKeepsNull(boxes, filter) ==
  IF filter = "all" THEN boxes
  ELSE LET catId == ParseInt(filter)
       IN SelectSeq(boxes, LAMBDA box : box.category_id = catId
                                          \/ box.category_id = NullCat)
FilterBoxes(boxes, filter) ==
  IF filter = "all" THEN boxes
  ELSE LET catId == ParseInt(filter)
       IN SelectSeq(boxes, LAMBDA box : box.category_id = catId)

\* A history effect that writes the store into the entry of every page.
SyncHistoryOfAll(history, boxes, imageId) ==
  IF imageId # NoImage
  THEN [i \in DOMAIN history |-> [history[i] EXCEPT !.predictions = boxes]]
  ELSE history
\* The history effect of App.
SyncHistory(history, boxes, imageId) ==
  IF imageId # NoImage
  THEN [i \in DOMAIN history |->
          IF history[i].id = imageId
          THEN [history[i] EXCEPT !.predictions = boxes] ELSE history[i]]
  ELSE history

\* What React runs after a handler: `history` is the page history as the
\* handler left it.
Effects(history) ==
  /\ filteredBoxes' = FilterBoxes(allBoxes', filterCategory')
  /\ imageHistory' = SyncHistory(history, allBoxes', currentImageId')

\* The scaled boxes of the render pass (displayed geometry, in half pixels
\* times the scale's denominator; never stored).
ScaledBox(box) ==
  [id |-> box.id,
   scaledX |-> (box.x * scaleX.num) \div scaleX.den,
   scaledY |-> (box.y * scaleY.num) \div scaleY.den,
   scaledW |-> (box.width * scaleX.num) \div scaleX.den,
   scaledH |-> (box.height * scaleY.num) \div scaleY.den]

\* undefined, for a category.
Undefined == -3
\* getColorForCategory: the red, green and blue of the rgba(r,g,b,0.4) it
\* returns; the switch compares with ===.
DefaultColor == <<89, 96, 108>>
GetColorForCategorySharesColor(catId) ==
  CASE catId = 0 -> <<58, 68, 102>>
    [] catId = 1 -> <<178, 57, 48>>
    [] catId = 2 -> <<47, 115, 84>>
    [] catId = 3 -> <<216, 172, 82>>
    [] catId = 4 -> <<112, 72, 145>>
    [] catId = 5 -> <<66, 113, 161>>
    [] catId = 6 -> <<66, 113, 161>>
    [] OTHER -> DefaultColor
GetColorForCategory(catId) ==
  CASE catId = 0 -> <<58, 68, 102>>
    [] catId = 1 -> <<178, 57, 48>>
    [] catId = 2 -> <<47, 115, 84>>
    [] catId = 3 -> <<216, 172, 82>>
    [] catId = 4 -> <<112, 72, 145>>
    [] catId = 5 -> <<66, 113, 161>>
    [] catId = 6 -> <<189, 87, 38>>
    [] OTHER -> DefaultColor
\* The fill of the rect of the i-th box of the store.
RectFill(i) == GetColorForCategory(allBoxes[i].category_id)

\* The same in JavaScript's numbers: the scale factors as the scale effect
\* divides them out, the scaled box of the render pass, and the division of
\* a displayed length by a scale factor that getEventCoordinates makes.
FloatScale(scale) == FDiv(Float(scale.num), Float(scale.den))
ToDisplayed(box) ==
  [scaledX |-> FMul(FloatOfReal(box.x), FloatScale(scaleX)),
   scaledY |-> FMul(FloatOfReal(box.y), FloatScale(scaleY)),
   scaledW |-> FMul(FloatOfReal(box.width), FloatScale(scaleX)),
   scaledH |-> FMul(FloatOfReal(box.height), FloatScale(scaleY))]
ToNatural(display, scale) == FDiv(display, FloatScale(scale))

\* The boxes the render pass draws, and those the pointer can hit: an SVG
\* rect of zero width or height is not rendered.
RenderedIdx == { i \in DOMAIN allBoxes : MatchesFilter(allBoxes[i], filterCategory) }
ClickableIds ==
  { allBoxes[i].id : i \in { j \in RenderedIdx :
                              allBoxes[j].width > 0 /\ allBoxes[j].height > 0 } }
HandleIds == { allBoxes[i].id : i \in { j \in RenderedIdx : allBoxes[j].id = editingBoxId } }

\* ------------------------------------------------------- the coordinates
\* A conversion that multiplies by the scale factors.
GetEventCoordinatesMultiplies(e) ==
  LET displayX == e.clientX - ImgBounds.left
      displayY == e.clientY - ImgBounds.top
  IN [realX |-> (Real(displayX) * scaleX.num) \div scaleX.den,
      realY |-> (Real(displayY) * scaleY.num) \div scaleY.den]
GetEventCoordinates(e) ==
  LET displayX == e.clientX - ImgBounds.left
      displayY == e.clientY - ImgBounds.top
  IN [realX |-> (Real(displayX) * scaleX.den) \div scaleX.num,
      realY |-> (Real(displayY) * scaleY.den) \div scaleY.num]

\* ------------------------------------------------------------ handlers ----
\* A handleMouseDown that deselects and goes on to start the draw.
HandleMouseDownFallsThrough(e) ==
  /\ uploadedImage # NoImage
  /\ LET c == GetEventCoordinates(e)
     IN /\ selectedBoxId' = NoId
        /\ editingBoxId' = NoId
        /\ isCategoryMenuOpen' = FALSE
        /\ isDrawing' = TRUE
        /\ currentBox' =
             [x |-> c.realX, y |-> c.realY, width |-> 0, height |-> 0,
              category_id |-> IF filterCategory = "all" THEN NullCat
                              ELSE ParseInt(filterCategory),
              isBackend |-> FALSE,
              file_name |-> IF metadata # NoMeta /\ metadata.fileName # ""
                            THEN metadata.fileName ELSE "default_filename"]
        /\ dragStart' = [realX |-> c.realX, realY |-> c.realY,
                          filter |-> filterCategory]
        /\ lastPtr' = c
        /\ lastOp' = IF selectedBoxId # NoId \/ editingBoxId # NoId
                     THEN "deselect" ELSE "drawStart"
  /\ UNCHANGED <<appVars, resizeVars, scaleVars, filteredBoxes, envVars>>

\* A pointer-down that tags the box with an empty file name, too.
HandleMouseDownTagsAnyName(e) ==
  /\ uploadedImage # NoImage
  /\ IF selectedBoxId # NoId \/ editingBoxId # NoId
     THEN /\ selectedBoxId' = NoId
          /\ editingBoxId' = NoId
          /\ isCategoryMenuOpen' = FALSE
          /\ UNCHANGED <<drawVars, ghostVars>>
          /\ lastOp' = "deselect"
     ELSE LET c == GetEventCoordinates(e)
          IN /\ isDrawing' = TRUE
             /\ currentBox' =
                  [x |-> c.realX, y |-> c.realY, width |-> 0, height |-> 0,
                   category_id |-> IF filterCategory = "all" THEN NullCat
                                   ELSE ParseInt(filterCategory),
                   isBackend |-> FALSE,
                   file_name |-> IF metadata # NoMeta
                                 THEN metadata.fileName ELSE "default_filename"]
             /\ dragStart' = [realX |-> c.realX, realY |-> c.realY,
                               filter |-> filterCategory]
             /\ lastPtr' = c
             /\ UNCHANGED selVars
             /\ lastOp' = "drawStart"
  /\ UNCHANGED <<appVars, resizeVars, scaleVars, filteredBoxes, envVars>>

\* handleMouseDown: a pointer-down that reaches the container.
HandleMouseDown(e) ==
  /\ uploadedImage # NoImage
  /\ IF selectedBoxId # NoId \/ editingBoxId # NoId
     THEN /\ selectedBoxId' = NoId
          /\ editingBoxId' = NoId
          /\ isCategoryMenuOpen' = FALSE
          /\ UNCHANGED <<drawVars, ghostVars>>
          /\ lastOp' = "deselect"
     ELSE LET c == GetEventCoordinates(e)
          IN /\ isDrawing' = TRUE
             /\ currentBox' =
                  [x |-> c.realX, y |-> c.realY, width |-> 0, height |-> 0,
                   category_id |-> IF filterCategory = "all" THEN NullCat
                                   ELSE ParseInt(filterCategory),
                   isBackend |-> FALSE,
                   file_name |-> IF metadata # NoMeta /\ metadata.fileName # ""
                                 THEN metadata.fileName ELSE "default_filename"]
             /\ dragStart' = [realX |-> c.realX, realY |-> c.realY,
                               filter |-> filterCategory]
             /\ lastPtr' = c
             /\ UNCHANGED selVars
             /\ lastOp' = "drawStart"
  /\ UNCHANGED <<appVars, resizeVars, scaleVars, filteredBoxes, envVars>>

\* The draw branch of handleMouseMove.
MoveCurrentBox(prev, c) ==
  [prev EXCEPT !.width = Abs(c.realX - prev.x),
               !.height = Abs(c.realY - prev.y),
               !.x = IF c.realX < prev.x THEN c.realX ELSE prev.x,
               !.y = IF c.realY < prev.y THEN c.realY ELSE prev.y]

\* A resize that leaves the origin in place for the top-left anchor too.
ResizeBoxKeepsOrigin(box, c) ==
  IF box.id = activeBoxId
  THEN LET isTopLeft == (resizingCorner = "top-left")
           newWidth == IF isTopLeft THEN box.width + (box.x - c.realX)
                       ELSE Abs(c.realX - box.x)
           newHeight == IF isTopLeft THEN box.height + (box.y - c.realY)
                        ELSE Abs(c.realY - box.y)
       IN [box EXCEPT !.width = Max(Real(1), newWidth),
                      !.height = Max(Real(1), newHeight)]
  ELSE box

\* A resize without the floor of 1 on the height.
ResizeBoxNoFloor(box, c) ==
  IF box.id = activeBoxId
  THEN LET isTopLeft == (resizingCorner = "top-left")
           newWidth == IF isTopLeft THEN box.width + (box.x - c.realX)
                       ELSE Abs(c.realX - box.x)
           newHeight == IF isTopLeft THEN box.height + (box.y - c.realY)
                        ELSE Abs(c.realY - box.y)
       IN [box EXCEPT !.x = IF isTopLeft THEN c.realX ELSE box.x,
                      !.y = IF isTopLeft THEN c.realY ELSE box.y,
                      !.width = Max(Real(1), newWidth),
                      !.height = newHeight]
  ELSE box

\* The resize branch of handleMouseMove, for one box of the store.
ResizeBox(box, c) ==
  IF box.id = activeBoxId
  THEN LET isTopLeft == (resizingCorner = "top-left")
           newWidth == IF isTopLeft THEN box.width + (box.x - c.realX)
                       ELSE Abs(c.realX - box.x)
           newHeight == IF isTopLeft THEN box.height + (box.y - c.realY)
                        ELSE Abs(c.realY - box.y)
       IN [box EXCEPT !.x = IF isTopLeft THEN c.realX ELSE box.x,
                      !.y = IF isTopLeft THEN c.realY ELSE box.y,
                      !.width = Max(Real(1), newWidth),
                      !.height = Max(Real(1), newHeight)]
  ELSE box

\* handleMouseMove.
HandleMouseMove(e) ==
  /\ uploadedImage # NoImage
  /\ isDrawing \/ isResizing
  /\ UNCHANGED <<currentImageId, uploadedImage, metadata, filterCategory,
                 showClearConfirmation, isDrawing, resizeVars, selVars,
                 scaleVars, envVars>>
  /\ LET c == GetEventCoordinates(e)
     IN IF isDrawing /\ currentBox # NoBox
        THEN /\ currentBox' = MoveCurrentBox(currentBox, c)
             /\ lastPtr' = c
             /\ UNCHANGED <<allBoxes, imageHistory, filteredBoxes, dragStart>>
             /\ lastOp' = "drawMove"
        ELSE IF isResizing /\ activeBoxId # NoId
        THEN /\ allBoxes' = [i \in DOMAIN allBoxes |-> ResizeBox(allBoxes[i], c)]
             /\ UNCHANGED <<currentBox, ghostVars>>
             /\ Effects(imageHistory)
             /\ lastOp' = "resizeMove"
        ELSE /\ UNCHANGED <<allBoxes, imageHistory, filteredBoxes, currentBox, ghostVars>>
             /\ lastOp' = "move"

\* The store after handleMouseUp: the provisional box, if any, is appended
\* with id Date.now().toString().
CommitsBox == isDrawing /\ currentBox # NoBox
\* A commit that drops the category of the provisional box.
NewBoxUncategorized ==
  [id |-> <<"draw", now, 0>>, x |-> currentBox.x, y |-> currentBox.y,
   width |-> currentBox.width, height |-> currentBox.height,
   category_id |-> NullCat, isBackend |-> currentBox.isBackend,
   file_name |-> currentBox.file_name, fadeOut |-> FALSE]
NewBox ==
  [id |-> <<"draw", now, 0>>, x |-> currentBox.x, y |-> currentBox.y,
   width |-> currentBox.width, height |-> currentBox.height,
   category_id |-> currentBox.category_id, isBackend |-> currentBox.isBackend,
   file_name |-> currentBox.file_name, fadeOut |-> FALSE]
\* A commit that puts the new box in front of the boxes of the store.
BoxesAfterMouseUpPrepends == IF CommitsBox THEN <<NewBox>> \o allBoxes ELSE allBoxes
BoxesAfterMouseUp == IF CommitsBox THEN Append(allBoxes, NewBox) ELSE allBoxes

\* A pointer-up that ends the draw and keeps the provisional box.
MouseUpCoreKeepsBox ==
  /\ allBoxes' = BoxesAfterMouseUp
  /\ now' = IF CommitsBox THEN now + 1 ELSE now
  /\ isDrawing' = IF CommitsBox THEN FALSE ELSE isDrawing
  /\ currentBox' = currentBox
  /\ isResizing' = FALSE
  /\ activeBoxId' = NoId
  /\ resizingCorner' = "null"
  /\ dragStart' = NoPoint
  /\ lastPtr' = NoPoint

\* What handleMouseUp does to the store, the draw and the resize state: the
\* draw state is cleared in the branch that commits, the resize state always.
MouseUpCore ==
  /\ allBoxes' = BoxesAfterMouseUp
  /\ now' = IF CommitsBox THEN now + 1 ELSE now
  /\ isDrawing' = IF CommitsBox THEN FALSE ELSE isDrawing
  /\ currentBox' = IF CommitsBox THEN NoBox ELSE currentBox
  /\ isResizing' = FALSE
  /\ activeBoxId' = NoId
  /\ resizingCorner' = "null"
  /\ dragStart' = NoPoint
  /\ lastPtr' = NoPoint

\* handleMouseUp: a pointer-up that reaches the container.
HandleMouseUp ==
  /\ uploadedImage # NoImage
  /\ MouseUpCore
  /\ lastOp' = IF CommitsBox THEN "commit" ELSE "mouseUp"
  /\ UNCHANGED <<currentImageId, uploadedImage, metadata, filterCategory,
                 showClearConfirmation, selVars, scaleVars, timers>>
  /\ Effects(imageHistory)

\* A click on the rect of a rendered box.  The rect stops the pointer-down;
\* the pointer-up of the click bubbles to the container (handleMouseUp) and
\* the click then runs handleBoxClick.
BoxClick(boxId) ==
  /\ uploadedImage # NoImage
  /\ boxId \in ClickableIds
  /\ MouseUpCore
  /\ UNCHANGED <<currentImageId, uploadedImage, metadata, filterCategory,
                 showClearConfirmation, scaleVars, timers>>
  /\ IF selectedBoxId = boxId
     THEN /\ selectedBoxId' = NoId
          /\ editingBoxId' = NoId
          /\ isCategoryMenuOpen' = FALSE
     ELSE /\ selectedBoxId' = boxId
          /\ editingBoxId' = NoId
          /\ UNCHANGED isCategoryMenuOpen
  /\ lastOp' = "boxClick"
  /\ Effects(imageHistory)

\* A handle press that anchors the resize at the selected box.
HandleResizeMouseDownOfSelected(boxId, corner) ==
  /\ uploadedImage # NoImage
  /\ boxId \in HandleIds
  /\ isResizing' = TRUE
  /\ activeBoxId' = selectedBoxId
  /\ resizingCorner' = corner
  /\ lastOp' = "handleDown"
  /\ UNCHANGED <<appVars, drawVars, selVars, filteredBoxes, scaleVars, envVars,
                 ghostVars>>

\* handleResizeMouseDown: a pointer-down on a corner handle of the box in
\* edit affordance (the handle stops the event).
HandleResizeMouseDown(boxId, corner) ==
  /\ uploadedImage # NoImage
  /\ boxId \in HandleIds
  /\ isResizing' = TRUE
  /\ activeBoxId' = boxId
  /\ resizingCorner' = corner
  /\ lastOp' = "handleDown"
  /\ UNCHANGED <<appVars, drawVars, selVars, filteredBoxes, scaleVars, envVars,
                 ghostVars>>

\* A Delete button that takes the selected box out of the store at once.
DeleteClickRemovesAtOnce ==
  /\ uploadedImage # NoImage
  /\ selectedBoxId # NoId
  /\ allBoxes' = SelectSeq(allBoxes, LAMBDA b : b.id # selectedBoxId)
  /\ selectedBoxId' = NoId
  /\ timers' = Append(timers, [kind |-> "delete", imageData |-> NoMeta,
                               boxId |-> selectedBoxId, page |-> currentImageId])
  /\ lastOp' = "delete"
  /\ UNCHANGED <<currentImageId, uploadedImage, metadata, filterCategory,
                 showClearConfirmation, drawVars, resizeVars, editingBoxId,
                 isCategoryMenuOpen, scaleVars, now, ghostVars>>
  /\ Effects(imageHistory)

\* A Delete button that marks the last box of the store when no box has the
\* selected id.
DeleteClickOrLast ==
  /\ uploadedImage # NoImage
  /\ selectedBoxId # NoId
  /\ allBoxes' = [i \in DOMAIN allBoxes |->
                    IF \/ allBoxes[i].id = selectedBoxId
                       \/ /\ i = Len(allBoxes)
                          /\ \A j \in DOMAIN allBoxes : allBoxes[j].id # selectedBoxId
                    THEN [allBoxes[i] EXCEPT !.fadeOut = TRUE] ELSE allBoxes[i]]
  /\ selectedBoxId' = NoId
  /\ timers' = Append(timers, [kind |-> "delete", imageData |-> NoMeta,
                               boxId |-> selectedBoxId, page |-> currentImageId])
  /\ lastOp' = "delete"
  /\ UNCHANGED <<currentImageId, uploadedImage, metadata, filterCategory,
                 showClearConfirmation, drawVars, resizeVars, editingBoxId,
                 isCategoryMenuOpen, scaleVars, now, ghostVars>>
  /\ Effects(imageHistory)

\* The Delete button of the context menu.
DeleteClick ==
  /\ uploadedImage # NoImage
  /\ selectedBoxId # NoId
  /\ allBoxes' = [i \in DOMAIN allBoxes |->
                    IF allBoxes[i].id = selectedBoxId
                    THEN [allBoxes[i] EXCEPT !.fadeOut = TRUE] ELSE allBoxes[i]]
  /\ selectedBoxId' = NoId
  /\ timers' = Append(timers, [kind |-> "delete", imageData |-> NoMeta,
                               boxId |-> selectedBoxId, page |-> currentImageId])
  /\ lastOp' = "delete"
  /\ UNCHANGED <<currentImageId, uploadedImage, metadata, filterCategory,
                 showClearConfirmation, drawVars, resizeVars, editingBoxId,
                 isCategoryMenuOpen, scaleVars, now, ghostVars>>
  /\ Effects(imageHistory)

\* An Edit button that leaves the box selected.
EditClickKeepsSelection ==
  /\ uploadedImage # NoImage
  /\ selectedBoxId # NoId
  /\ editingBoxId' = selectedBoxId
  /\ selectedBoxId' = selectedBoxId
  /\ lastOp' = "edit"
  /\ UNCHANGED <<appVars, drawVars, resizeVars, isCategoryMenuOpen,
                 filteredBoxes, scaleVars, envVars, ghostVars>>

\* The Edit button of the context menu.
EditClick ==
  /\ uploadedImage # NoImage
  /\ selectedBoxId # NoId
  /\ editingBoxId' = selectedBoxId
  /\ selectedBoxId' = NoId
  /\ lastOp' = "edit"
  /\ UNCHANGED <<appVars, drawVars, resizeVars, isCategoryMenuOpen,
                 filteredBoxes, scaleVars, envVars, ghostVars>>

\* The Change Category button of the context menu.
ToggleCategoryMenu ==
  /\ uploadedImage # NoImage
  /\ selectedBoxId # NoId
  /\ isCategoryMenuOpen' = ~isCategoryMenuOpen
  /\ lastOp' = "toggleMenu"
  /\ UNCHANGED <<appVars, drawVars, resizeVars, selectedBoxId, editingBoxId,
                 filteredBoxes, scaleVars, envVars, ghostVars>>

\* A handleChangeCategory that recategorizes every box of the store.
HandleChangeCategoryOfAll(newCategoryId) ==
  /\ uploadedImage # NoImage
  /\ selectedBoxId # NoId
  /\ isCategoryMenuOpen
  /\ allBoxes' = [i \in DOMAIN allBoxes |->
                    [allBoxes[i] EXCEPT !.category_id = newCategoryId]]
  /\ isCategoryMenuOpen' = FALSE
  /\ selectedBoxId' = NoId
  /\ lastOp' = "changeCategory"
  /\ UNCHANGED <<currentImageId, uploadedImage, metadata, filterCategory,
                 showClearConfirmation, drawVars, resizeVars, editingBoxId,
                 scaleVars, envVars, ghostVars>>
  /\ Effects(imageHistory)

\* handleChangeCategory(selectedBoxId, cat.id), from the category menu.
HandleChangeCategory(newCategoryId) ==
  /\ uploadedImage # NoImage
  /\ selectedBoxId # NoId
  /\ isCategoryMenuOpen
  /\ allBoxes' = [i \in DOMAIN allBoxes |->
                    IF allBoxes[i].id = selectedBoxId
                    THEN [allBoxes[i] EXCEPT !.category_id = newCategoryId]
                    ELSE allBoxes[i]]
  /\ isCategoryMenuOpen' = FALSE
  /\ selectedBoxId' = NoId
  /\ lastOp' = "changeCategory"
  /\ UNCHANGED <<currentImageId, uploadedImage, metadata, filterCategory,
                 showClearConfirmation, drawVars, resizeVars, editingBoxId,
                 scaleVars, envVars, ghostVars>>
  /\ Effects(imageHistory)

\* A click on an entry of the category legend: setFilterCategory.
SetFilterCategory(f) ==
  /\ uploadedImage # NoImage
  /\ f # filterCategory
  /\ filterCategory' = f
  /\ lastOp' = "setFilter"
  /\ UNCHANGED <<allBoxes, currentImageId, uploadedImage, metadata,
                 showClearConfirmation, drawVars, resizeVars, selVars,
                 scaleVars, envVars, ghostVars>>
  /\ Effects(imageHistory)

\* ---------------------------------------------------------------- App ----
\* The Clear All Boxes button, and the two buttons of its confirmation.
HandleClearAllBoxes ==
  /\ uploadedImage # NoImage
  /\ ~showClearConfirmation
  /\ showClearConfirmation' = TRUE
  /\ lastOp' = "clearRequest"
  /\ UNCHANGED <<allBoxes, imageHistory, currentImageId, uploadedImage, metadata,
                 filterCategory, viewerVars, envVars, ghostVars>>

CancelClearAllBoxes ==
  /\ uploadedImage # NoImage
  /\ showClearConfirmation
  /\ showClearConfirmation' = FALSE
  /\ lastOp' = "clearCancel"
  /\ UNCHANGED <<allBoxes, imageHistory, currentImageId, uploadedImage, metadata,
                 filterCategory, viewerVars, envVars, ghostVars>>

\* A confirmClearAllBoxes that empties the store at once.
ConfirmClearsAtOnce ==
  /\ uploadedImage # NoImage
  /\ showClearConfirmation
  /\ allBoxes' = <<>>
  /\ showClearConfirmation' = FALSE
  /\ timers' = Append(timers, [kind |-> "clear", imageData |-> NoMeta,
                               boxId |-> NoId, page |-> currentImageId])
  /\ lastOp' = "clearConfirm"
  /\ UNCHANGED <<currentImageId, uploadedImage, metadata, filterCategory,
                 drawVars, resizeVars, selVars, scaleVars, now, ghostVars>>
  /\ Effects(imageHistory)

ConfirmClearAllBoxes ==
  /\ uploadedImage # NoImage
  /\ showClearConfirmation
  /\ allBoxes' = [i \in DOMAIN allBoxes |-> [allBoxes[i] EXCEPT !.fadeOut = TRUE]]
  /\ showClearConfirmation' = FALSE
  /\ timers' = Append(timers, [kind |-> "clear", imageData |-> NoMeta,
                               boxId |-> NoId, page |-> currentImageId])
  /\ lastOp' = "clearConfirm"
  /\ UNCHANGED <<currentImageId, uploadedImage, metadata, filterCategory,
                 drawVars, resizeVars, selVars, scaleVars, now, ghostVars>>
  /\ Effects(imageHistory)

\* What a change of the displayed page to `newId` does to the image element
\* and to the viewer: the src of the element changes, so the new image is
\* fetched, and the imageId effect (setImageLoaded(false)) is scheduled.
PageChanges(newId) ==
  /\ IF newId = currentImageId
     THEN UNCHANGED <<imgComplete, loadPending, effectPending>>
     ELSE /\ imgComplete' = FALSE
          /\ loadPending' = FALSE
          /\ effectPending' = IF effectPending = "mount" THEN "mount" ELSE "reset"
  /\ UNCHANGED <<scaleX, scaleY, imageLoaded, img>>

\* handleThumbnailClick: the switch itself is deferred by 300 ms; the
\* callback keeps the imageData of the click (and finds the same entry in
\* the imageHistory of the click).
HandleThumbnailClick(imageData) ==
  /\ currentImageId # imageData.id
  /\ timers' = Append(timers, [kind |-> "switch", imageData |-> imageData,
                               boxId |-> NoId, page |-> currentImageId])
  /\ lastOp' = "thumbnail"
  /\ UNCHANGED <<appVars, viewerVars, now, ghostVars>>

\* The delays of the three setTimeout calls, in ms.
DeleteDelay == 1000
ClearDelay == 1000
SwitchDelay == 300
Delay(t) ==
  CASE t.kind = "delete" -> DeleteDelay
    [] t.kind = "clear" -> ClearDelay
    [] t.kind = "switch" -> SwitchDelay

\* A pending timer can fire when no timer set before it is due earlier or at
\* the same time: timers of equal delay fire in the order they were set,
\* and a timer set later fires first only if its delay is shorter.
CanFire(i) == \A j \in 1 .. i - 1 : Delay(timers[j]) > Delay(timers[i])
RemoveAt(s, i) == [k \in 1 .. Len(s) - 1 |-> IF k < i THEN s[k] ELSE s[k + 1]]

\* The callback of the Delete button's timer.
RemoveFaded(boxes) == SelectSeq(boxes, LAMBDA b : ~b.fadeOut)
DeleteTimerFires(i) ==
  /\ i \in DOMAIN timers
  /\ timers[i].kind = "delete"
  /\ CanFire(i)
  /\ timers' = RemoveAt(timers, i)
  /\ allBoxes' = RemoveFaded(allBoxes)
  /\ lastOp' = "deleteTimer"
  /\ UNCHANGED <<currentImageId, uploadedImage, metadata, filterCategory,
                 showClearConfirmation, drawVars, resizeVars, selVars,
                 scaleVars, now, ghostVars>>
  /\ Effects(imageHistory)

\* The callback of confirmClearAllBoxes' timer.
ClearTimerFires(i) ==
  /\ i \in DOMAIN timers
  /\ timers[i].kind = "clear"
  /\ CanFire(i)
  /\ timers' = RemoveAt(timers, i)
  /\ allBoxes' = <<>>
  /\ lastOp' = "clearTimer"
  /\ UNCHANGED <<currentImageId, uploadedImage, metadata, filterCategory,
                 showClearConfirmation, drawVars, resizeVars, selVars,
                 scaleVars, now, ghostVars>>
  /\ Effects(imageHistory)

\* The callback of handleThumbnailClick's timer.
SwitchTimerFires(i) ==
  /\ i \in DOMAIN timers
  /\ timers[i].kind = "switch"
  /\ CanFire(i)
  /\ timers' = RemoveAt(timers, i)
  /\ LET imageData == timers[i].imageData
     IN /\ uploadedImage' = imageData.id
        /\ allBoxes' = imageData.predictions
        /\ currentImageId' = imageData.id
        /\ metadata' = imageData.metadata
  /\ lastOp' = "switchTimer"
  /\ UNCHANGED <<filterCategory, showClearConfirmation, drawVars, resizeVars,
                 selVars, now, ghostVars>>
  /\ PageChanges(timers[i].imageData.id)
  /\ Effects(imageHistory)

\* The predictions of a page as response.data.predictions gives them; the
\* bbox is [x1, y1, x2, y2] in natural pixels, image_id 0 stands for an
\* absent (falsy) image_id.
Pred(imageId, cat, x1, y1, x2, y2) ==
  [image_id |-> imageId, category_id |-> cat,
   bbox |-> <<Real(x1), Real(y1), Real(x2), Real(y2)>>, file_name |-> "page.png"]
Uploads ==
  { <<Pred(0, 0, 0, 0, 1, 1)>>,
    <<Pred(0, 0, 0, 0, 2, 1), Pred(0, MaxCat, 1, 0, 2, 1)>>,
    <<Pred(7, 0, 0, 0, 1, 1), Pred(7, MaxCat, 1, 0, 2, 1)>> }

\* processedPredictions of handleImageUpload, read at clock value t.
ProcessedPredictions(preds, t) ==
  [k \in DOMAIN preds |->
     LET pred == preds[k]
         idx == k - 1
     IN [id |-> IF pred.image_id # 0 THEN <<"pred", pred.image_id, 0>>
                ELSE <<"ts", t, idx>>,
         category_id |-> pred.category_id,
         x |-> pred.bbox[1], y |-> pred.bbox[2],
         width |-> pred.bbox[3] - pred.bbox[1],
         height |-> pred.bbox[4] - pred.bbox[2],
         isBackend |-> TRUE, file_name |-> pred.file_name, fadeOut |-> FALSE]]

\* The image-history entry handleImageUpload builds (the boxNumber it adds
\* to the entry's predictions is dropped by the history effect that follows).
NewImageData(preds, t, image) ==
  [id |-> t, predictions |-> ProcessedPredictions(preds, t),
   metadata |-> [fileName |-> preds[1].file_name], image |-> image]

\* img.onload of handleImageUpload, after the backend answered with
\* predictions.
ImageUploaded(preds, image) ==
  /\ LET entry == NewImageData(preds, now, image)
     IN /\ allBoxes' = entry.predictions
        /\ currentImageId' = entry.id
        /\ uploadedImage' = entry.id
        /\ metadata' = entry.metadata
        /\ now' = now + 1
        /\ lastOp' = "upload"
        /\ UNCHANGED <<filterCategory, showClearConfirmation, drawVars,
                       resizeVars, selVars, timers, ghostVars>>
        /\ PageChanges(entry.id)
        /\ Effects(Append(imageHistory, entry))

\* -------------------------------------------------------------- states ----
\* The scale factors displayed / natural, as the scale effect computes them
\* from the image element: (naturalWidth, naturalHeight, clientWidth,
\* clientHeight).
ScaleNoFallback(natural, display) == [num |-> display, den |-> natural]
Scale(natural, display) ==
  LET n == IF natural # 0 THEN natural ELSE 1
      d == IF display # 0 THEN display ELSE n
  IN [num |-> d, den |-> n]
Image(nw, nh, cw, ch) ==
  [naturalWidth |-> nw, naturalHeight |-> nh, clientWidth |-> cw, clientHeight |-> ch]
\* An image shown at its natural size, one at half its natural size, and one
\* stretched to twice its natural width.
NaturalSize == Image(2, 2, 2, 2)
HalfSize == Image(4, 4, 2, 2)
Stretched == Image(1, 2, 2, 2)
Images == { NaturalSize, HalfSize, Stretched }

\* An image that reports no natural size, and one that is not laid out.
NoNaturalSize == Image(0, 0, 2, 2)
NotLaidOut == Image(2, 2, 0, 0)
ElementImages == Images \cup { NoNaturalSize, NotLaidOut }
\* The element before any image has arrived.
NoImageYet == Image(0, 0, 0, 0)
\* useState(1) of scaleX and scaleY.
UnitScale == [num |-> 1, den |-> 1]

\* A scale effect that writes the displayed geometry back into the store.
ScaleEffectStoresScaled ==
  /\ scaleX' = Scale(img.naturalWidth, img.clientWidth)
  /\ scaleY' = Scale(img.naturalHeight, img.clientHeight)
  /\ allBoxes' = [i \in DOMAIN allBoxes |->
                    [allBoxes[i] EXCEPT
                       !.x = (@ * scaleX'.num) \div scaleX'.den,
                       !.width = (@ * scaleX'.num) \div scaleX'.den]]
  /\ filteredBoxes' = FilterBoxes(allBoxes', filterCategory)
  /\ imageHistory' = SyncHistory(imageHistory, allBoxes', currentImageId)

\* The scale effect, run with imageLoaded true, and run with imageLoaded
\* false (its early return).
ScaleEffect ==
  /\ scaleX' = Scale(img.naturalWidth, img.clientWidth)
  /\ scaleY' = Scale(img.naturalHeight, img.clientHeight)
  /\ UNCHANGED <<allBoxes, imageHistory, filteredBoxes>>
NoScaleEffect == UNCHANGED <<scaleX, scaleY, allBoxes, imageHistory, filteredBoxes>>

\* What the steps of the image element and of the viewer's loading effects
\* leave alone.
LoadFrame ==
  UNCHANGED <<currentImageId, uploadedImage, metadata, filterCategory,
              showClearConfirmation, drawVars, resizeVars, selVars, envVars,
              ghostVars>>

\* The image of the displayed page.
PageImage ==
  imageHistory[CHOOSE k \in DOMAIN imageHistory :
                 imageHistory[k].id = uploadedImage].image

\* The image of the displayed page arrives: the element reports its
\* dimensions and is complete, and its load event is queued.
ImageArrives ==
  /\ uploadedImage # NoImage
  /\ ~imgComplete
  /\ imgComplete' = TRUE
  /\ img' = PageImage
  /\ loadPending' = TRUE
  /\ lastOp' = "imageArrives"
  /\ UNCHANGED <<imageLoaded, effectPending>>
  /\ NoScaleEffect
  /\ LoadFrame

\* The passive effects of the first render: the imageId effect
\* (setImageLoaded(false)), the check of img.complete (setImageLoaded(true))
\* and the scale effect, which returns early; the render that follows runs
\* the scale effect again if imageLoaded has become true.
MountEffects ==
  /\ effectPending = "mount"
  /\ effectPending' = "none"
  /\ imageLoaded' = imgComplete
  /\ IF imgComplete THEN ScaleEffect ELSE NoScaleEffect
  /\ lastOp' = "mountEffects"
  /\ UNCHANGED <<img, imgComplete, loadPending>>
  /\ LoadFrame

\* The imageId effect after a page change: setImageLoaded(false); the scale
\* effect of the render that follows returns early.
ResetEffect ==
  /\ effectPending = "reset"
  /\ effectPending' = "none"
  /\ imageLoaded' = FALSE
  /\ NoScaleEffect
  /\ lastOp' = "resetEffect"
  /\ UNCHANGED <<img, imgComplete, loadPending>>
  /\ LoadFrame

\* onLoad of the img element: setImageLoaded(true).  With imageLoaded true
\* already nothing is rendered and scheduled effects stay scheduled.
\* Otherwise the render runs the scheduled effects first: those of the
\* mount end with imageLoaded true (the image is complete), the imageId
\* effect queues its setImageLoaded(false) behind the true of onLoad.
ImgOnLoad ==
  /\ loadPending
  /\ loadPending' = FALSE
  /\ IF imageLoaded
     THEN /\ UNCHANGED <<imageLoaded, effectPending>>
          /\ NoScaleEffect
     ELSE /\ effectPending' = "none"
          /\ IF effectPending = "reset"
             THEN imageLoaded' = FALSE /\ NoScaleEffect
             ELSE imageLoaded' = TRUE /\ ScaleEffect
  /\ lastOp' = "onLoad"
  /\ UNCHANGED <<img, imgComplete>>
  /\ LoadFrame

\* The container or the viewport is resized: the element is laid out at
\* another size.  The viewer listens to no resize event.
ContainerResize(clientWidth, clientHeight) ==
  /\ uploadedImage # NoImage
  /\ imgComplete
  /\ <<clientWidth, clientHeight>> # <<img.clientWidth, img.clientHeight>>
  /\ img' = [img EXCEPT !.clientWidth = clientWidth, !.clientHeight = clientHeight]
  /\ lastOp' = "resize"
  /\ UNCHANGED <<imageLoaded, imgComplete, loadPending, effectPending>>
  /\ NoScaleEffect
  /\ LoadFrame

\* The session of a freshly mounted viewer.
FreshSession ==
  /\ isDrawing = FALSE
  /\ currentBox = NoBox
  /\ activeBoxId = NoId
  /\ isResizing = FALSE
  /\ resizingCorner = "null"
  /\ selectedBoxId = NoId
  /\ editingBoxId = NoId
  /\ isCategoryMenuOpen = FALSE
  /\ dragStart = NoPoint
  /\ lastPtr = NoPoint

\* The first uploaded page `preds`, with image `image`, as App and the
\* first render of the viewer hold it.
Rendered(preds, image) ==
  /\ LET entry == NewImageData(preds, 1, image)
     IN /\ allBoxes = entry.predictions
        /\ imageHistory = <<entry>>
        /\ currentImageId = entry.id
        /\ uploadedImage = entry.id
        /\ metadata = entry.metadata
        /\ filteredBoxes = entry.predictions
  /\ now = 2
  /\ filterCategory = "all"
  /\ showClearConfirmation = FALSE
  /\ FreshSession
  /\ timers = <<>>
  /\ lastOp = "init"

\* The viewer showing the first uploaded page, its image loaded and the
\* scale factors computed.
Mounted(preds, image) ==
  /\ Rendered(preds, image)
  /\ scaleX = Scale(image.naturalWidth, image.clientWidth)
  /\ scaleY = Scale(image.naturalHeight, image.clientHeight)
  /\ imageLoaded = TRUE
  /\ img = image
  /\ imgComplete = TRUE
  /\ loadPending = FALSE
  /\ effectPending = "none"

\* The bounds of the model: the clock is read, and a timer is set, only
\* below its bound.
ClockLeft == now < MaxClock
TimerLeft == Len(timers) < MaxTimers
StartsDraw == selectedBoxId = NoId /\ editingBoxId = NoId

\* The pointer events of the viewer, with pointer positions P; a pointer-down
\* starts a draw only where `draws` holds.
PointerNext(P, draws) ==
  \/ \E e \in P : (StartsDraw => draws /\ ClockLeft) /\ HandleMouseDown(e)
  \/ \E e \in P : HandleMouseMove(e)
  \/ HandleMouseUp
  \/ \E boxId \in ClickableIds : BoxClick(boxId)
  \/ \E boxId \in HandleIds, corner \in {"top-left", "bottom-right"} :
       HandleResizeMouseDown(boxId, corner)
  \/ EditClick

\* The context menu, the category legend and the Delete timer.
MenuNext ==
  \/ TimerLeft /\ DeleteClick
  \/ ToggleCategoryMenu
  \/ \E c \in Cats : HandleChangeCategory(c)
  \/ \E f \in Filters : SetFilterCategory(f)
  \/ \E i \in DOMAIN timers : DeleteTimerFires(i)

\* The viewer on one page, pointer on the diagonal of the image.
Init == Mounted(<<Pred(0, 0, 0, 0, 1, 1)>>, NaturalSize)
Next == PointerNext(DiagPointers, TRUE) \/ MenuNext
Spec == Init /\ [][Next]_vars

\* The geometry of drawing and resizing: pointer on a grid, every image.
InitGeo == \E image \in Images : Mounted(<<Pred(0, 0, 0, 0, 1, 1)>>, image)
NextGeo == PointerNext(Pointers, TRUE)
SpecGeo == InitGeo /\ [][NextGeo]_vars

\* Resizing alone: a page of one box on any of the images, and a pointer
\* that is pressed on the background only to deselect.
InitResize == \E image \in Images : Mounted(<<Pred(0, 0, 0, 0, 1, 1)>>, image)
NextResize == PointerNext(Pointers, FALSE)
SpecResize == InitResize /\ [][NextResize]_vars

\* The pages of a session: uploads, thumbnail switches, Clear All Boxes and
\* the deferred removals, with clicks on the boxes and the context menu.
InitApp == Mounted(<<Pred(0, 0, 0, 0, 1, 1)>>, NaturalSize)
NextApp ==
  \/ \E preds \in Uploads : ClockLeft /\ ImageUploaded(preds, NaturalSize)
  \/ \E k \in DOMAIN imageHistory : TimerLeft /\ HandleThumbnailClick(imageHistory[k])
  \/ HandleClearAllBoxes
  \/ CancelClearAllBoxes
  \/ TimerLeft /\ ConfirmClearAllBoxes
  \/ \E boxId \in ClickableIds : BoxClick(boxId)
  \/ TimerLeft /\ DeleteClick
  \/ \E i \in DOMAIN timers : DeleteTimerFires(i)
  \/ \E i \in DOMAIN timers : ClearTimerFires(i)
  \/ \E i \in DOMAIN timers : SwitchTimerFires(i)
SpecApp == InitApp /\ [][NextApp]_vars

\* The context menu on a loaded page: any of the pages, clicks on the boxes
\* and on the background (which only deselect), no drags.
InitMenu == \E preds \in Uploads : Mounted(preds, NaturalSize)
NextMenu ==
  \/ \E e \in DiagPointers : ~StartsDraw /\ HandleMouseDown(e)
  \/ \E boxId \in ClickableIds : BoxClick(boxId)
  \/ EditClick
  \/ MenuNext
SpecMenu == InitMenu /\ [][NextMenu]_vars

\* The loading of the image and the scale factors: the first page has just
\* been rendered (nothing of its image has arrived, the effects of the
\* mount are scheduled); pages are uploaded, images arrive and the
\* container is resized.
InitImage ==
  /\ \E image \in ElementImages : Rendered(<<Pred(0, 0, 0, 0, 1, 1)>>, image)
  /\ scaleX = UnitScale
  /\ scaleY = UnitScale
  /\ imageLoaded = FALSE
  /\ img = NoImageYet
  /\ imgComplete = FALSE
  /\ loadPending = FALSE
  /\ effectPending = "mount"
NextLoad ==
  \/ ImageArrives
  \/ MountEffects
  \/ ResetEffect
  \/ ImgOnLoad
  \/ \E size \in {0, 1, 2} : ContainerResize(size, size)
  \/ \E image \in ElementImages :
       ClockLeft /\ ImageUploaded(<<Pred(0, 0, 0, 0, 1, 1)>>, image)
SpecLoad == InitImage /\ [][NextLoad]_vars

\* The same with the thumbnails of the page history, which switch the page
\* after SwitchDelay.
NextImage ==
  \/ NextLoad
  \/ \E k \in DOMAIN imageHistory : TimerLeft /\ HandleThumbnailClick(imageHistory[k])
  \/ \E i \in DOMAIN timers : SwitchTimerFires(i)
SpecImage == InitImage /\ [][NextImage]_vars

\* The scale factors over every size the element can report: the first page
\* has just been rendered, its image has any natural and displayed
\* dimensions from 0 to MaxPX, and the element is laid out anew.
InitScale ==
  /\ \E nw, nh, cw, ch \in 0..MaxPX :
       Rendered(<<Pred(0, 0, 0, 0, 1, 1)>>, Image(nw, nh, cw, ch))
  /\ scaleX = UnitScale
  /\ scaleY = UnitScale
  /\ imageLoaded = FALSE
  /\ img = NoImageYet
  /\ imgComplete = FALSE
  /\ loadPending = FALSE
  /\ effectPending = "mount"
NextScale ==
  \/ ImageArrives
  \/ MountEffects
  \/ ImgOnLoad
  \/ \E cw, ch \in 0..MaxPX : ContainerResize(cw, ch)
SpecScale == InitScale /\ [][NextScale]_vars

\* Clear All Boxes on one page: any of the pages, with clicks on the boxes
\* and the Delete button among the steps of the confirmation.
InitClear == \E preds \in Uploads : Mounted(preds, NaturalSize)
NextClear ==
  \/ HandleClearAllBoxes
  \/ CancelClearAllBoxes
  \/ TimerLeft /\ ConfirmClearAllBoxes
  \/ \E boxId \in ClickableIds : BoxClick(boxId)
  \/ TimerLeft /\ DeleteClick
  \/ \E i \in DOMAIN timers : DeleteTimerFires(i)
  \/ \E i \in DOMAIN timers : ClearTimerFires(i)
SpecClear == InitClear /\ [][NextClear]_vars

\* Updates that come after a removal: the viewer on a page of two boxes,
\* with the context menu, the resize handles and the Delete timer, and a
\* pointer that is pressed on the background only to deselect.
InitStale ==
  Mounted(<<Pred(0, 0, 0, 0, 2, 1), Pred(0, MaxCat, 1, 0, 2, 1)>>, NaturalSize)
NextStale ==
  \/ PointerNext(DiagPointers, FALSE)
  \/ TimerLeft /\ DeleteClick
  \/ ToggleCategoryMenu
  \/ \E c \in Cats : HandleChangeCategory(c)
  \/ \E i \in DOMAIN timers : DeleteTimerFires(i)
SpecStale == InitStale /\ [][NextStale]_vars

\* The colors of the rendered boxes: a page whose one box has any category
\* value the backend can send (the seven categories, null, undefined, NaN
\* and integers above the last category), recategorized through the menu
\* with any of the seven categories.
OtherCategories == {NullCat, Undefined, NaN} \cup (7 .. 7 + MaxCat)
ColorInputs == categories \cup OtherCategories
InitColor == \E c \in ColorInputs : Mounted(<<Pred(0, c, 0, 0, 1, 1)>>, NaturalSize)
NextColor ==
  \/ \E e \in DiagPointers : ~StartsDraw /\ HandleMouseDown(e)
  \/ \E boxId \in ClickableIds : BoxClick(boxId)
  \/ EditClick
  \/ ToggleCategoryMenu
  \/ \E c \in categories : HandleChangeCategory(c)
SpecColor == InitColor /\ [][NextColor]_vars

\* The conversion of pointer positions: any of the images, and an image of
\* natural size 2000x3000 displayed at 500x750; the pointer on the diagonal,
\* and at displayed (100, 150); pressed, moved and released to draw.
ExampleImage == Image(2000, 3000, 500, 750)
ExamplePointer == [clientX |-> ImgBounds.left + 100, clientY |-> ImgBounds.top + 150]
CoordPointers == DiagPointers \cup {ExamplePointer}
InitCoord ==
  \E image \in Images \cup {ExampleImage} : Mounted(<<Pred(0, 0, 0, 0, 1, 1)>>, image)
NextCoord ==
  \/ \E e \in CoordPointers : StartsDraw /\ ClockLeft /\ HandleMouseDown(e)
  \/ \E e \in CoordPointers : HandleMouseMove(e)
  \/ HandleMouseUp
SpecCoord == InitCoord /\ [][NextCoord]_vars

\* The rounding of the scaled geometry: a page whose box starts at any x up
\* to MaxBoxX, on any of the images and on one shown at a third of its
\* natural size; the box is clicked, put in edit affordance and resized.
ThirdSize == Image(3, 3, 1, 1)
InitFloat ==
  \E image \in Images \cup {ThirdSize}, x \in 0 .. MaxBoxX :
    Mounted(<<Pred(0, 0, x, 0, x + 1, 1)>>, image)
NextFloat == PointerNext(DiagPointers, FALSE)
SpecFloat == InitFloat /\ [][NextFloat]_vars

\* The page history under the mutations of the store: the viewer with all
\* its pointer handlers and menus, Clear All Boxes and the deferred
\* removals, on the only page of the history and on the second of two.
\* The first page displayed, or a second page uploaded after it and
\* displayed, its image loaded.
SecondPage(preds, image) ==
  /\ LET first == NewImageData(preds, 1, image)
         entry == NewImageData(preds, 2, image)
     IN /\ allBoxes = entry.predictions
        /\ imageHistory = <<first, entry>>
        /\ currentImageId = entry.id
        /\ uploadedImage = entry.id
        /\ metadata = entry.metadata
        /\ filteredBoxes = entry.predictions
  /\ now = 3
  /\ filterCategory = "all"
  /\ showClearConfirmation = FALSE
  /\ FreshSession
  /\ timers = <<>>
  /\ lastOp = "upload"
  /\ scaleX = Scale(image.naturalWidth, image.clientWidth)
  /\ scaleY = Scale(image.naturalHeight, image.clientHeight)
  /\ imageLoaded = TRUE
  /\ img = image
  /\ imgComplete = TRUE
  /\ loadPending = FALSE
  /\ effectPending = "none"
InitSync ==
  \/ Mounted(<<Pred(0, 0, 0, 0, 1, 1)>>, NaturalSize)
  \/ SecondPage(<<Pred(0, 0, 0, 0, 1, 1)>>, NaturalSize)
NextSync ==
  \/ PointerNext(DiagPointers, TRUE)
  \/ TimerLeft /\ DeleteClick
  \/ ToggleCategoryMenu
  \/ \E c \in Cats : HandleChangeCategory(c)
  \/ \E i \in DOMAIN timers : DeleteTimerFires(i)
  \/ HandleClearAllBoxes
  \/ CancelClearAllBoxes
  \/ TimerLeft /\ ConfirmClearAllBoxes
  \/ \E i \in DOMAIN timers : ClearTimerFires(i)
SpecSync == InitSync /\ [][NextSync]_vars

\* Navigation between pages: uploads of further pages (the clock value an
\* upload reads stays within MaxClock), thumbnail clicks and their switch
\* timers, and the Delete button with its timer as the edit of a page.
InitNav == Mounted(<<Pred(0, 0, 0, 0, 1, 1)>>, NaturalSize)
NextNav ==
  \/ now <= MaxClock /\ ImageUploaded(<<Pred(0, 0, 0, 0, 1, 1)>>, NaturalSize)
  \/ \E k \in DOMAIN imageHistory : TimerLeft /\ HandleThumbnailClick(imageHistory[k])
  \/ \E boxId \in ClickableIds : BoxClick(boxId)
  \/ TimerLeft /\ DeleteClick
  \/ \E i \in DOMAIN timers : DeleteTimerFires(i)
  \/ \E i \in DOMAIN timers : SwitchTimerFires(i)
SpecNav == InitNav /\ [][NextNav]_vars

\* The pointer alone on the first page: draws, box clicks, the Edit button
\* and resizes, with the pointer on the diagonal.
InitDraw == Mounted(<<Pred(0, 0, 0, 0, 1, 1)>>, NaturalSize)
NextDraw == PointerNext(DiagPointers, TRUE)
SpecDraw == InitDraw /\ [][NextDraw]_vars

\* updateMetadata of App: the metadata form replaces the metadata of the
\* displayed page, in the state and in its history entry.
UpdateMetadata(updated) ==
  /\ uploadedImage # NoImage
  /\ metadata' = updated
  /\ imageHistory' = [i \in DOMAIN imageHistory |->
                        IF imageHistory[i].id = currentImageId
                        THEN [imageHistory[i] EXCEPT !.metadata = updated]
                        ELSE imageHistory[i]]
  /\ lastOp' = "updateMetadata"
  /\ UNCHANGED <<allBoxes, currentImageId, uploadedImage, filterCategory,
                 showClearConfirmation, viewerVars, envVars, ghostVars>>

\* Draws on a page whose file name is present, or empty (standing for a
\* file_name the backend left out, too), and that the metadata form changes.
FileNames == {"page.png", "renamed.png", ""}
NamedPred(name) == [Pred(0, 0, 0, 0, 1, 1) EXCEPT !.file_name = name]
InitTag == \E name \in FileNames : Mounted(<<NamedPred(name)>>, NaturalSize)
NextTag ==
  \/ \E e \in DiagPointers : StartsDraw /\ ClockLeft /\ HandleMouseDown(e)
  \/ \E e \in DiagPointers : HandleMouseMove(e)
  \/ HandleMouseUp
  \/ \E name \in FileNames : UpdateMetadata([fileName |-> name])
SpecTag == InitTag /\ [][NextTag]_vars

\* Deletion and navigation on two pages, the second one displayed, with
\* timers that fire: a callback that setTimeout has scheduled runs once it
\* is due, so a timer that can fire does not wait forever.
InitFade == SecondPage(<<Pred(0, 0, 0, 0, 1, 1)>>, NaturalSize)
NextFade ==
  \/ \E k \in DOMAIN imageHistory : TimerLeft /\ HandleThumbnailClick(imageHistory[k])
  \/ \E boxId \in ClickableIds : BoxClick(boxId)
  \/ TimerLeft /\ DeleteClick
  \/ \E i \in DOMAIN timers : DeleteTimerFires(i)
  \/ \E i \in DOMAIN timers : SwitchTimerFires(i)
TimersFire ==
  /\ WF_vars(\E i \in DOMAIN timers : DeleteTimerFires(i))
  /\ WF_vars(\E i \in DOMAIN timers : SwitchTimerFires(i))
SpecFade == InitFade /\ [][NextFade]_vars /\ TimersFire

\* ---------------------------------------------------------- properties ----
\* A step in which a pointer-up reached the container.
PointerUpStep == lastOp' \in {"commit", "mouseUp", "boxClick"}
\* The box a step appended to the store.
Committed == allBoxes'[Len(allBoxes')]
DragCommitStep == PointerUpStep /\ CommitsBox /\ Len(allBoxes') = Len(allBoxes) + 1

\* C1: the box a drag commits has x = min(P0.x, P1.x), y = min(P0.y, P1.y),
\* width = |P1.x - P0.x| and height = |P1.y - P0.y|, where P0 is the point of
\* the pointer-down and P1 the last pointer position of the drag, whatever
\* the moves in between.
C1_DragNormalised ==
  [][DragCommitStep =>
       /\ Committed.x = Min(dragStart.realX, lastPtr.realX)
       /\ Committed.y = Min(dragStart.realY, lastPtr.realY)
       /\ Committed.width = Abs(lastPtr.realX - dragStart.realX)
       /\ Committed.height = Abs(lastPtr.realY - dragStart.realY)]_vars

\* C2: a pointer-up that ends a drag whose provisional box has width or
\* height zero (a pointer-down and pointer-up with no movement among them)
\* leaves the store as it was.
C2_ZeroSizeDragAddsNoBox ==
  [][(PointerUpStep /\ CommitsBox
        /\ (currentBox.width = 0 \/ currentBox.height = 0))
       => allBoxes' = allBoxes]_vars

\* C3: at most one of the modes Drawing, Resizing and Selected is active; in
\* particular isDrawing and isResizing are never both true.
C3_AtMostOneMode ==
  /\ ~(isDrawing /\ isResizing)
  /\ ~(isDrawing /\ selectedBoxId # NoId)
  /\ ~(isResizing /\ selectedBoxId # NoId)

\* A step of the resize branch of handleMouseMove, and the boxes it resizes.
ResizeMoveStep == lastOp' = "resizeMove" /\ Len(allBoxes') = Len(allBoxes)
Resized == { i \in DOMAIN allBoxes : allBoxes[i].id = activeBoxId }

\* C4: a pointer-move that resizes from the bottom-right anchor leaves x and
\* y of the resized box unchanged; one that resizes from the top-left anchor
\* leaves x + width unchanged unless the floor of 1 applies to the width (the
\* width the move asks for is below 1), and y + height likewise.
C4_ResizeKeepsOppositeCorner ==
  [][ResizeMoveStep =>
       \A i \in Resized :
         LET old == allBoxes[i]
             new == allBoxes'[i]
         IN /\ resizingCorner = "bottom-right" =>
                 new.x = old.x /\ new.y = old.y
            /\ resizingCorner = "top-left" =>
                 /\ old.x + old.width - new.x >= Real(1) =>
                      new.x + new.width = old.x + old.width
                 /\ old.y + old.height - new.y >= Real(1) =>
                      new.y + new.height = old.y + old.height]_vars
\* A top-left resize has moved the origin of a box wider than the floor.
C4_Witness ==
  /\ lastOp = "resizeMove"
  /\ resizingCorner = "top-left"
  /\ \E i \in Resized :
       /\ allBoxes[i].x > 0
       /\ allBoxes[i].width > Real(1)

\* C5: after a pointer-move handled by the resize branch, with either anchor
\* and the pointer anywhere, the resized box is at least 1 wide and 1 high.
C5_ResizeFloor ==
  lastOp = "resizeMove" =>
    \A i \in Resized : allBoxes[i].width >= Real(1) /\ allBoxes[i].height >= Real(1)
\* A top-left resize with the pointer at the right edge of the image: the
\* box is held at the floor.
C5_Witness ==
  /\ lastOp = "resizeMove"
  /\ resizingCorner = "top-left"
  /\ \E i \in Resized :
       /\ allBoxes[i].x = GetEventCoordinates([clientX |-> ImgBounds.left + MaxPX,
                                               clientY |-> ImgBounds.top]).realX
       /\ allBoxes[i].width = Real(1)

\* The integer a filter value stands for, and the k-th index, in increasing
\* order, of a set of indices.
FilterCategoryOf(f) == CHOOSE k \in categories : ToStr(k) = f
NthOf(S, k) == CHOOSE i \in S : Cardinality({ j \in S : j < i }) = k - 1
\* The boxes of the store a filter selects.
SelectedBy(f) ==
  IF f = "all" THEN DOMAIN allBoxes
  ELSE { i \in DOMAIN allBoxes : allBoxes[i].category_id = FilterCategoryOf(f) }

\* C6: the boxes rendered, and the filteredBoxes state, are every box of the
\* store in order when the filter is "all", and otherwise exactly the boxes
\* whose category_id is the filter's integer, in the order of the store;
\* an uncategorized box is among them only under "all".
C6_FilterSelectsCategory ==
  /\ RenderedIdx = SelectedBy(filterCategory)
  /\ Len(filteredBoxes) = Cardinality(SelectedBy(filterCategory))
  /\ \A k \in DOMAIN filteredBoxes :
       filteredBoxes[k] = allBoxes[NthOf(SelectedBy(filterCategory), k)]
  /\ filterCategory = "all" => filteredBoxes = allBoxes
  /\ filterCategory # "all" =>
       \A k \in DOMAIN filteredBoxes : filteredBoxes[k].category_id # NullCat
\* An integer filter over a store that holds a box of its category and an
\* uncategorized box.
C6_Witness ==
  /\ filterCategory # "all"
  /\ filteredBoxes # <<>>
  /\ \E i \in DOMAIN allBoxes : allBoxes[i].category_id = NullCat

\* A step in which the callback of the i-th pending timer runs.
TimerFiresStep(i) ==
  /\ i \in DOMAIN timers
  /\ CanFire(i)
  /\ timers' = RemoveAt(timers, i)
  /\ lastOp' \in {"deleteTimer", "clearTimer"}

\* C7: when the timer of a Delete fires, the store loses the entry with the
\* id the Delete was for and nothing else: every other box stays, unchanged
\* and in order, whatever other deletes are pending.
C7_DeleteRemovesOne ==
  [][\A i \in DOMAIN timers :
       (TimerFiresStep(i) /\ timers[i].kind = "delete") =>
         allBoxes' = SelectSeq(allBoxes, LAMBDA b : b.id # timers[i].boxId)]_vars

\* The entry of the displayed page in a page history.
PageEntry(history) ==
  history[CHOOSE k \in DOMAIN history : history[k].id = currentImageId]

\* C8: when a Delete timer or a clear-all timer fires that was set on a page
\* other than the one displayed now, the store and the displayed page's
\* history entry are left as they are.
C8_RemovalScopedToPage ==
  [][\A i \in DOMAIN timers :
       (TimerFiresStep(i) /\ timers[i].page # currentImageId) =>
         /\ allBoxes' = allBoxes
         /\ PageEntry(imageHistory') = PageEntry(imageHistory)]_vars

\* C9: a pointer-down on the background while a box is selected or in edit
\* affordance clears selectedBoxId, editingBoxId and the category menu, and
\* starts no draw: after it isDrawing is false, there is no provisional box
\* and the store is as before.
C9_DeselectConsumesPointerDown ==
  [][((selectedBoxId # NoId \/ editingBoxId # NoId)
        /\ lastOp' \in {"deselect", "drawStart"}) =>
       /\ selectedBoxId' = NoId
       /\ editingBoxId' = NoId
       /\ isCategoryMenuOpen' = FALSE
       /\ isDrawing' = FALSE
       /\ currentBox' = NoBox
       /\ allBoxes' = allBoxes]_vars
\* A pointer-down has closed an open category menu and started no draw.
C9_Witness ==
  /\ lastOp = "deselect"
  /\ selectedBoxId = NoId
  /\ editingBoxId = NoId
  /\ ~isCategoryMenuOpen
  /\ ~isDrawing

\* C10: the box a drag commits has the category of the filter that was
\* active at its pointer-down (none for "all"), and is selected by that
\* filter.
C10_DrawnBoxTakesFilterCategory ==
  [][DragCommitStep =>
       /\ Committed.category_id =
            IF dragStart.filter = "all" THEN NullCat
            ELSE FilterCategoryOf(dragStart.filter)
       /\ MatchesFilter(Committed, dragStart.filter)]_vars
\* A box drawn under an integer filter has been committed with a category.
C10_Witness ==
  /\ lastOp = "commit"
  /\ allBoxes # <<>>
  /\ ~allBoxes[Len(allBoxes)].isBackend
  /\ allBoxes[Len(allBoxes)].category_id \in Cats

\* C11: choosing a category for the selected box changes the category_id of
\* the boxes with the selected id to the one category chosen and nothing
\* else: every other field of every box, the category of every other box and
\* the order and length of the store stay; the selection is cleared and the
\* category menu closed.
C11_ChangeCategoryFrame ==
  [][lastOp' = "changeCategory" =>
       /\ Len(allBoxes') = Len(allBoxes)
       /\ \E c \in categories :
            \A i \in DOMAIN allBoxes :
              allBoxes'[i] = IF allBoxes[i].id = selectedBoxId
                             THEN [allBoxes[i] EXCEPT !.category_id = c]
                             ELSE allBoxes[i]
       /\ selectedBoxId' = NoId
       /\ isCategoryMenuOpen' = FALSE]_vars
\* Two boxes of different ids, each recategorized, now differ in category.
C11_Witness ==
  /\ lastOp = "changeCategory"
  /\ Len(allBoxes) = 2
  /\ allBoxes[1].id # allBoxes[2].id
  /\ allBoxes[1].category_id = MaxCat
  /\ allBoxes[2].category_id = 0
  /\ selectedBoxId = NoId
  /\ ~isCategoryMenuOpen

\* C12: the boxes of the store have pairwise distinct ids.
C12_UniqueIds ==
  \A i, j \in DOMAIN allBoxes : i # j => allBoxes[i].id # allBoxes[j].id

\* C13: every box of the store has width >= 0 and height >= 0, and none has
\* zero area (width or height zero): a zero-area box is only ever the
\* provisional box of a draw.
C13_NoDegenerateEntry ==
  \A i \in DOMAIN allBoxes :
    /\ allBoxes[i].width >= 0
    /\ allBoxes[i].height >= 0
    /\ allBoxes[i].width # 0
    /\ allBoxes[i].height # 0

\* C14: the displayed geometry is derived and never stored: a step that
\* recomputes the scale factors, and every step of the image element and of
\* the loading effects, leaves the store and the page history as they were.
ScaleStep ==
  \/ scaleX' # scaleX
  \/ scaleY' # scaleY
  \/ lastOp' \in {"mountEffects", "onLoad", "resetEffect", "imageArrives", "resize"}
C14_ScaleNeverWritesStore ==
  [][ScaleStep => allBoxes' = allBoxes /\ imageHistory' = imageHistory]_vars
C14_Witness ==
  /\ lastOp = "onLoad"
  /\ scaleX = Scale(4, 2)
  /\ allBoxes # <<>>
  /\ ScaledBox(allBoxes[1]).scaledW # allBoxes[1].width

\* C15: whenever the image is loaded (the load event and the loading
\* effects have been handled and the element reports non-zero dimensions),
\* scaleX is the displayed width over the natural width and scaleY the
\* displayed height over the natural height of the element as it is laid
\* out now.
Settled == imgComplete /\ ~loadPending /\ effectPending = "none"
C15_ScaleNeverStale ==
  ( /\ imageLoaded
    /\ Settled
    /\ img.naturalWidth # 0 /\ img.naturalHeight # 0
    /\ img.clientWidth # 0 /\ img.clientHeight # 0 )
  => /\ scaleX.num * img.naturalWidth = scaleX.den * img.clientWidth
     /\ scaleY.num * img.naturalHeight = scaleY.den * img.clientHeight

\* C16: in every reachable state, whatever non-negative natural and
\* displayed dimensions the image element reports (zero included), scaleX
\* and scaleY are strictly positive: the division of a pointer position by
\* the scale never divides by zero.
C16_ScalePositive ==
  /\ scaleX.num > 0 /\ scaleX.den > 0
  /\ scaleY.num > 0 /\ scaleY.den > 0
C16_Witness ==
  /\ imageLoaded
  /\ lastOp \in {"onLoad", "mountEffects"}
  /\ img.naturalWidth = 0 /\ img.clientWidth = 0
  /\ img.naturalHeight = MaxPX /\ img.clientHeight = 0
  /\ scaleX.num > 0 /\ scaleX.den > 0
  /\ scaleY = [num |-> MaxPX, den |-> MaxPX]

\* C17: when the image reports no natural width (height), the scale factor
\* computed for that axis is 1, whatever its displayed width (height) is.
C17_IdentityScaleWithoutNaturalSize ==
  imageLoaded =>
    /\ img.naturalWidth = 0 => scaleX.num = scaleX.den
    /\ img.naturalHeight = 0 => scaleY.num = scaleY.den

\* C18: whichever of the image's load event and the viewer's effects is
\* handled first, once a mounted or switched page has settled (the image is
\* complete, no load event and no effect is outstanding) imageLoaded is
\* true and the scale factors are those of the new image.
C18_LoadedOnceSettled ==
  (uploadedImage # NoImage /\ Settled) =>
    /\ imageLoaded
    /\ scaleX.den = (IF img.naturalWidth # 0 THEN img.naturalWidth ELSE 1)
    /\ scaleY.den = (IF img.naturalHeight # 0 THEN img.naturalHeight ELSE 1)

\* C19: whenever the displayed page changes (a thumbnail switch or an upload
\* while the viewer stays mounted), the interaction session is reset:
\* isDrawing and isResizing are false, the provisional box, selectedBoxId,
\* editingBoxId, activeBoxId and resizingCorner are null and the category
\* menu is closed.
C19_PageChangeResetsSession ==
  [][currentImageId' # currentImageId =>
       /\ isDrawing' = FALSE
       /\ isResizing' = FALSE
       /\ currentBox' = NoBox
       /\ selectedBoxId' = NoId
       /\ editingBoxId' = NoId
       /\ activeBoxId' = NoId
       /\ resizingCorner' = "null"
       /\ isCategoryMenuOpen' = FALSE]_vars

\* C20: deletion has two phases.  The Delete step never shortens the store:
\* it marks the selected box fadeOut, leaves every other box as it was and
\* clears the selection.  The store gets shorter only in a step of the
\* Delete timer, and every box that step removes was marked fadeOut before
\* it: the boxes that were not marked are all kept, in their order.
Unmarked(boxes) == SelectSeq(boxes, LAMBDA b : ~b.fadeOut)
C20_TwoPhaseDelete ==
  [][/\ lastOp' = "delete" =>
          /\ Len(allBoxes') = Len(allBoxes)
          /\ \A i \in DOMAIN allBoxes :
               allBoxes'[i] = IF allBoxes[i].id = selectedBoxId
                              THEN [allBoxes[i] EXCEPT !.fadeOut = TRUE]
                              ELSE allBoxes[i]
          /\ selectedBoxId' = NoId
     /\ Len(allBoxes') < Len(allBoxes) =>
          /\ lastOp' = "deleteTimer"
          /\ Unmarked(allBoxes') = Unmarked(allBoxes)
          /\ \A i \in DOMAIN allBoxes' : \E j \in DOMAIN allBoxes : allBoxes'[i] = allBoxes[j]]_vars
C20_Witness ==
  /\ lastOp = "deleteTimer"
  /\ Len(allBoxes) = 1
  /\ ~allBoxes[1].fadeOut
  /\ selectedBoxId = NoId

\* C21: clear-all needs the confirmation and has two phases.  Asking for it
\* and cancelling leave the store as it was; confirming is possible only
\* while the confirmation is shown, and marks every box fadeOut without
\* removing any; the step of the timer the confirmation set, with the page
\* still the one it was set on, leaves the store empty.
C21_ClearAllConfirmedTwoPhase ==
  [][/\ lastOp' \in {"clearRequest", "clearCancel"} => allBoxes' = allBoxes
     /\ lastOp' = "clearConfirm" =>
          /\ showClearConfirmation
          /\ Len(allBoxes') = Len(allBoxes)
          /\ \A i \in DOMAIN allBoxes :
               allBoxes'[i] = [allBoxes[i] EXCEPT !.fadeOut = TRUE]
     /\ \A i \in DOMAIN timers :
          (TimerFiresStep(i) /\ timers[i].kind = "clear"
             /\ timers[i].page = currentImageId) =>
            allBoxes' = <<>>
     /\ lastOp' = "clearTimer" =>
          \E i \in DOMAIN timers : TimerFiresStep(i) /\ timers[i].kind = "clear"]_vars
\* The timer of a confirmed clear-all has fired with nothing else pending.
C21_Witness ==
  /\ lastOp = "clearTimer"
  /\ allBoxes = <<>>
  /\ timers = <<>>
  /\ ~showClearConfirmation
  /\ PageEntry(imageHistory).predictions = <<>>

\* C22: an update or a removal addressed to an id that is not in the store
\* is a no-op: a resize pointer-move whose activeBoxId is not the id of a
\* box, and a category change or a Delete whose selectedBoxId is not the id
\* of a box, leave the store as it was.
InStore(id) == \E i \in DOMAIN allBoxes : allBoxes[i].id = id
C22_UnknownIdIsNoOp ==
  [][/\ (lastOp' = "resizeMove" /\ ~InStore(activeBoxId)) => allBoxes' = allBoxes
     /\ (lastOp' \in {"changeCategory", "delete"} /\ ~InStore(selectedBoxId)) =>
          allBoxes' = allBoxes]_vars

\* A pointer-move of a resize whose box has left the store, other boxes
\* being in it.
C22_Witness ==
  /\ lastOp = "resizeMove"
  /\ isResizing
  /\ activeBoxId # NoId
  /\ ~InStore(activeBoxId)
  /\ allBoxes # <<>>

\* C23: the mapping from category to color is total: each of the category
\* ids 0..6 has a color of its own (the seven are pairwise distinct), every
\* other value (null, undefined, NaN, an integer outside 0..6) has the one
\* default color, and the rect of every box of the store gets a fill.
C23_ColorMapTotal ==
  /\ \A c, d \in categories :
       c # d => GetColorForCategory(c) # GetColorForCategory(d)
  /\ \A v \in OtherCategories : GetColorForCategory(v) = DefaultColor
  /\ \A i \in DOMAIN allBoxes :
       /\ RectFill(i) \in {GetColorForCategory(c) : c \in categories} \cup {DefaultColor}
       /\ allBoxes[i].category_id \notin categories => RectFill(i) = DefaultColor
       /\ allBoxes[i].category_id \in categories =>
            \A c \in categories :
              RectFill(i) = GetColorForCategory(c) => c = allBoxes[i].category_id
\* A box that came with a value outside the categories has been given the
\* last category and its color.
C23_Witness ==
  /\ lastOp = "changeCategory"
  /\ Len(allBoxes) = 1
  /\ allBoxes[1].category_id = 6
  /\ RectFill(1) # DefaultColor
  /\ RectFill(1) # GetColorForCategory(5)

\* C24: the conversion of a pointer event gives ((clientX - left) / scaleX,
\* (clientY - top) / scaleY), for every pointer event and for the position
\* the handlers of a drag took from the last one; with natural size
\* 2000x3000 displayed at 500x750 both scale factors are 0.25 and the
\* pointer at displayed (100, 150) is at natural (400, 600).
IsConversionOf(c, e) ==
  /\ c.realX * scaleX.num = Real(e.clientX - ImgBounds.left) * scaleX.den
  /\ c.realY * scaleY.num = Real(e.clientY - ImgBounds.top) * scaleY.den
C24_PointerToNatural ==
  /\ \A e \in CoordPointers : IsConversionOf(GetEventCoordinates(e), e)
  /\ lastPtr # NoPoint => \E e \in CoordPointers : IsConversionOf(lastPtr, e)
  /\ img = ExampleImage =>
       /\ 4 * scaleX.num = scaleX.den
       /\ 4 * scaleY.num = scaleY.den
       /\ GetEventCoordinates(ExamplePointer) = [realX |-> Real(400), realY |-> Real(600)]
\* A draw has started at displayed (100, 150) on the image of the example.
C24_Witness ==
  /\ img = ExampleImage
  /\ lastOp = "drawStart"
  /\ currentBox # NoBox
  /\ currentBox.x = Real(400)
  /\ currentBox.y = Real(600)

\* C25: round trip: projecting a box of the store for display (x and width
\* times scaleX, y and height times scaleY) and dividing each field by its
\* scale factor gives the box back exactly.
C25_RoundTrip ==
  \A i \in DOMAIN allBoxes :
    LET b == allBoxes[i]
        d == ToDisplayed(b)
    IN /\ ToNatural(d.scaledX, scaleX) = FloatOfReal(b.x)
       /\ ToNatural(d.scaledY, scaleY) = FloatOfReal(b.y)
       /\ ToNatural(d.scaledW, scaleX) = FloatOfReal(b.width)
       /\ ToNatural(d.scaledH, scaleY) = FloatOfReal(b.height)

\* C26: the page history stays in sync with the store: after every step
\* that changes the store while a page is displayed (draw, resize,
\* recategorize, delete, clear-all and their timers), the history entry of
\* the displayed page has the store as its predictions, and the entries of
\* the other pages are as they were.
C26_HistoryInSync ==
  [][(allBoxes' # allBoxes /\ currentImageId' = currentImageId
        /\ currentImageId # NoImage) =>
       /\ Len(imageHistory') = Len(imageHistory)
       /\ \A k \in DOMAIN imageHistory :
            /\ imageHistory'[k].id = imageHistory[k].id
            /\ imageHistory[k].id = currentImageId =>
                 imageHistory'[k].predictions = allBoxes'
            /\ imageHistory[k].id # currentImageId =>
                 imageHistory'[k] = imageHistory[k]]_vars
\* The box of the second page has been resized: the entry of that page has
\* the resized box, the entry of the first page the box it had.
C26_Witness ==
  /\ lastOp = "resizeMove"
  /\ Len(imageHistory) = 2
  /\ currentImageId = imageHistory[2].id
  /\ allBoxes # <<>>
  /\ imageHistory[2].predictions = allBoxes
  /\ Len(imageHistory[1].predictions) = 1
  /\ imageHistory[1].predictions[1].width # allBoxes[1].width

\* C27: work is not lost on navigation. Whenever a switch timer makes another
\* page current, the Box Store becomes exactly the boxes that page had when
\* it was left, which are the predictions its image-history entry holds
\* (the history effect wrote them while the page was current, and the entry
\* of a page that is not current is never written).
C27_RestoresOnReturn ==
  [][(lastOp' = "switchTimer" /\ currentImageId' # currentImageId) =>
       \A k \in DOMAIN imageHistory :
         imageHistory[k].id = currentImageId' =>
           allBoxes' = imageHistory[k].predictions]_vars

\* C28: while Drawing, a pointer-move changes only the provisional box and
\* leaves the Box Store (and everything else) as it is; the pointer-up that
\* ends the draw appends exactly one box, with the geometry of the provisional
\* box, after the boxes already present, which keep their values and order,
\* and clears the provisional box and isDrawing.
PointerMoved == lastOp' \in {"drawMove", "resizeMove", "move"}
PointerReleased == lastOp' \in {"commit", "mouseUp", "boxClick"}
C28_DrawCommitsByAppending ==
  [][/\ (isDrawing /\ PointerMoved) =>
          UNCHANGED <<appVars, isDrawing, resizeVars, selVars, filteredBoxes,
                      scaleVars, envVars>>
     /\ (isDrawing /\ PointerReleased) =>
          /\ Len(allBoxes') = Len(allBoxes) + 1
          /\ SubSeq(allBoxes', 1, Len(allBoxes)) = allBoxes
          /\ LET added == allBoxes'[Len(allBoxes')]
             IN /\ added.x = currentBox.x /\ added.y = currentBox.y
                /\ added.width = currentBox.width
                /\ added.height = currentBox.height
                /\ \A i \in DOMAIN allBoxes : allBoxes[i].id # added.id
          /\ currentBox' = NoBox
          /\ isDrawing' = FALSE]_vars
\* A box has been dragged out and committed behind the box of the page.
C28_Witness ==
  /\ lastOp = "commit"
  /\ Len(allBoxes) = 2
  /\ allBoxes[1].isBackend /\ ~allBoxes[2].isBackend
  /\ allBoxes[2].width > 0
  /\ currentBox = NoBox /\ ~isDrawing

\* C29: a pointer-up in Resizing mode clears the resize anchor state
\* (isResizing, activeBoxId, resizingCorner) and changes nothing else: the
\* Box Store keeps the geometry of the last pointer-move and editingBoxId
\* keeps its value.
C29_ResizeEndsInPlace ==
  [][(isResizing /\ lastOp' \in {"commit", "mouseUp"}) =>
       /\ isResizing' = FALSE
       /\ activeBoxId' = NoId
       /\ resizingCorner' = "null"
       /\ UNCHANGED <<appVars, drawVars, selVars, filteredBoxes, scaleVars,
                      envVars>>]_vars

\* C30: Resizing is entered only by a pointer-down on a corner handle of the
\* box in edit affordance. Whenever isResizing is true, resizingCorner is
\* "top-left" or "bottom-right" and activeBoxId is a box id; the anchor
\* (activeBoxId, resizingCorner) is set only by a handle press, to the id
\* that is editingBoxId at the press; and the Edit button makes the selected
\* box the one in edit affordance and leaves the Box Store as it is.
Corners == {"top-left", "bottom-right"}
C30_ResizeEnteredByHandle ==
  [][/\ isResizing' => (resizingCorner' \in Corners /\ activeBoxId' # NoId)
     /\ (isResizing' /\ (~isResizing \/ activeBoxId' # activeBoxId
                                     \/ resizingCorner' # resizingCorner)) =>
          /\ lastOp' = "handleDown"
          /\ editingBoxId # NoId
          /\ activeBoxId' = editingBoxId
          /\ \E i \in DOMAIN allBoxes : allBoxes[i].id = editingBoxId
     /\ lastOp' = "edit" =>
          /\ allBoxes' = allBoxes
          /\ selectedBoxId # NoId
          /\ editingBoxId' = selectedBoxId
          /\ selectedBoxId' = NoId]_vars
\* The top-left handle of the box in edit affordance has just been pressed.
C30_Witness ==
  /\ lastOp = "handleDown"
  /\ isResizing
  /\ resizingCorner = "top-left"
  /\ activeBoxId # NoId
  /\ activeBoxId = editingBoxId
  /\ \E i \in DOMAIN allBoxes : allBoxes[i].id = activeBoxId

\* C31: each deleted box gets its own fade phase. When the timer of the
\* Delete of one box fires while the Delete timer of another box, set on the
\* displayed page, is still pending, that other box is still in the store
\* afterwards: it leaves only when its own timer fires.
C31_OwnFadePhase ==
  [][\A i, j \in DOMAIN timers :
       (/\ TimerFiresStep(i)
        /\ timers[i].kind = "delete" /\ timers[j].kind = "delete"
        /\ timers[j].boxId # timers[i].boxId
        /\ timers[j].page = currentImageId) =>
         \A k \in DOMAIN allBoxes :
           allBoxes[k].id = timers[j].boxId =>
             \E m \in DOMAIN allBoxes' : allBoxes'[m].id = allBoxes[k].id]_vars

\* C32: a newly drawn box is tagged at pointer-down with the file name of the
\* displayed page: the provisional box gets metadata.fileName when metadata
\* with a non-empty fileName is present and "default_filename" otherwise,
\* and isBackend = false; pointer-moves keep the tag, and the commit puts
\* the box with that tag into the store.
FileNameOf(meta) ==
  IF meta # NoMeta /\ meta.fileName # "" THEN meta.fileName ELSE "default_filename"
C32_DrawnBoxTagged ==
  [][/\ lastOp' = "drawStart" =>
          /\ currentBox'.file_name = FileNameOf(metadata)
          /\ currentBox'.isBackend = FALSE
     /\ lastOp' = "drawMove" =>
          /\ currentBox'.file_name = currentBox.file_name
          /\ currentBox'.isBackend = currentBox.isBackend
     /\ DragCommitStep =>
          /\ Committed.file_name = currentBox.file_name
          /\ Committed.isBackend = FALSE]_vars
\* A box drawn on the page without a file name is in the store, tagged
\* "default_filename".
C32_Witness ==
  /\ lastOp = "commit"
  /\ Len(allBoxes) = 2
  /\ ~allBoxes[2].isBackend
  /\ allBoxes[2].file_name = "default_filename"
  /\ metadata.fileName = ""
\* C33: a click on a box toggles selection. A click on the selected box
\* clears selectedBoxId, editingBoxId and the category menu; a click on any
\* other box makes that box the selected one and clears editingBoxId; in
\* both cases no draw is in progress afterwards and the Box Store is as it
\* was before the click.
C33_BoxClickToggles ==
  [][lastOp' = "boxClick" =>
       /\ \/ /\ selectedBoxId # NoId
             /\ selectedBoxId' = NoId
             /\ editingBoxId' = NoId
             /\ isCategoryMenuOpen' = FALSE
          \/ /\ selectedBoxId' # NoId
             /\ selectedBoxId' # selectedBoxId
             /\ \E i \in DOMAIN allBoxes : allBoxes[i].id = selectedBoxId'
             /\ editingBoxId' = NoId
       /\ isDrawing' = FALSE
       /\ currentBox' = NoBox
       /\ allBoxes' = allBoxes]_vars

\* C34: the session flags are mutually consistent in every reachable state:
\* isDrawing is true exactly when there is a provisional box, and isResizing
\* is true exactly when activeBoxId and resizingCorner are both non-null.
C34_FlagsConsistent ==
  /\ isDrawing <=> currentBox # NoBox
  /\ isResizing <=> (activeBoxId # NoId /\ resizingCorner # "null")
\* A draw has started while a resize anchor is still set: both flags are
\* true, with a provisional box and an anchor.
C34_Witness ==
  /\ isDrawing /\ currentBox # NoBox
  /\ isResizing /\ activeBoxId # NoId /\ resizingCorner = "bottom-right"
  /\ lastOp = "drawMove"

\* C35: in every reachable state selectedBoxId and editingBoxId are not both
\* non-null: a box is selected, with the context menu, or in edit affordance,
\* with the resize handles, never both.
C35_SelectedOrEditing == ~(selectedBoxId # NoId /\ editingBoxId # NoId)
\* The Edit button has moved the selected box into edit affordance: the box
\* is in the store, in edit affordance and not selected any more.
C35_Witness ==
  /\ lastOp = "edit"
  /\ editingBoxId # NoId
  /\ selectedBoxId = NoId
  /\ \E i \in DOMAIN allBoxes : allBoxes[i].id = editingBoxId

\* C36: the category menu is open only while a box is selected: in every
\* reachable state isCategoryMenuOpen implies that selectedBoxId is
\* non-null.
C36_MenuOpenOnlyWhenSelected == isCategoryMenuOpen => selectedBoxId # NoId

\* C37: in every reachable state each non-null session reference
\* (selectedBoxId, editingBoxId, activeBoxId) is the id of a box that is in
\* the Box Store.
C37_ReferencesInStore ==
  \A ref \in {selectedBoxId, editingBoxId, activeBoxId} :
    ref # NoId => \E i \in DOMAIN allBoxes : allBoxes[i].id = ref

\* C38: clear-all removes exactly the boxes that were in the store when the
\* user confirmed, which are the boxes the confirmation marked fadeOut. When
\* the clear timer fires on the page it was set on, every box of the store
\* that is not marked (a box drawn after the confirmation) is still in the
\* store afterwards.
C38_ClearKeepsLaterBoxes ==
  [][\A i \in DOMAIN timers :
       (/\ TimerFiresStep(i)
        /\ timers[i].kind = "clear"
        /\ timers[i].page = currentImageId) =>
         \A k \in DOMAIN allBoxes :
           ~allBoxes[k].fadeOut =>
             \E m \in DOMAIN allBoxes' : allBoxes'[m] = allBoxes[k]]_vars

\* C39: under fairness of the timers, a box marked fadeOut by Delete is
\* eventually absent from the box list of its page, which is the page's
\* image-history entry (the history effect keeps the entry of the displayed
\* page equal to the Box Store): whenever the entry of a page holds a marked
\* box, it eventually holds none, also when the user switches to another
\* page before the Delete timer fires.
HasMarked(k) ==
  /\ k \in DOMAIN imageHistory
  /\ \E i \in DOMAIN imageHistory[k].predictions :
       imageHistory[k].predictions[i].fadeOut
C39_MarkedEventuallyRemoved ==
  \A k \in 1 .. 2 : HasMarked(k) ~> ~HasMarked(k)

=============================================================================
